---- MODULE Spec2Model ----
(***************************************************************************)
(* Production Tracking API (src/main.py): create_production,               *)
(* list_production and export_production over the "productionrecord"       *)
(* collection of the document store.                                       *)
(*                                                                         *)
(* Representation.  An Optional[T] value is <<>> (None) or <<v>>.  A clock  *)
(* time is its number of seconds since midnight, a date is <<y, m, d>>, a   *)
(* datetime is [date, time].  A Python str that the code parses or formats  *)
(* (a date string, "HH:MM", str(_id)) is a sequence of one-character        *)
(* strings; a str that is only compared or passed through is a TLA+ string. *)
(* Each request handler runs to completion in one step.  Spec is the       *)
(* service over a small set of inputs; SpecNorm is one create_production   *)
(* call for every clock time of the day.                                   *)
(***************************************************************************)
EXTENDS Integers, Sequences, FiniteSets, TLC

VARIABLES store, req, resp, calls

vars == <<store, req, resp, calls>>

None == <<>>

Some(v) == <<v>>

(***************************************************************************)
(* Bounds and input sets                                                   *)
(***************************************************************************)
MaxStore == 2

dtime(h, m, s) == h * 3600 + m * 60 + s

Digits == <<"0", "1", "2", "3", "4", "5", "6", "7", "8", "9">>

IsDigit(c) == \E n \in 1..10 : Digits[n] = c

DigitVal(c) == (CHOOSE n \in 1..10 : Digits[n] = c) - 1

(***************************************************************************)
(* datetime library conversions used by the handlers                       *)
(***************************************************************************)
IsLeap(y) == (y % 4 = 0 /\ y % 100 # 0) \/ y % 400 = 0

DaysInMonth(y, m) ==
    IF m = 2 THEN (IF IsLeap(y) THEN 29 ELSE 28)
    ELSE IF m \in {4, 6, 9, 11} THEN 30 ELSE 31

Digit(n) == Digits[(n % 10) + 1]

Pad2(n) == <<Digit(n \div 10), Digit(n)>>

\* date.isoformat(): YYYY-MM-DD, zero padded
isoformat(d) ==
    <<Digit(d[1] \div 1000), Digit(d[1] \div 100)>> \o Pad2(d[1])
        \o <<"-">> \o Pad2(d[2]) \o <<"-">> \o Pad2(d[3])

\* time.strftime("%H:%M"): the seconds are dropped
strftime_HM(t) == Pad2(t \div 3600) \o <<":">> \o Pad2((t \div 60) % 60)

\* the %m directive: 1[0-2] | 0[1-9] | [1-9]
MonthToken(tok) ==
    \/ Len(tok) = 2 /\ tok[1] = "1" /\ tok[2] \in {"0", "1", "2"}
    \/ Len(tok) = 2 /\ tok[1] = "0" /\ IsDigit(tok[2]) /\ tok[2] # "0"
    \/ Len(tok) = 1 /\ IsDigit(tok[1]) /\ tok[1] # "0"

\* the %d directive: 3[0-1] | [1-2]\d | 0[1-9] | [1-9] | " "[1-9]
DayToken(tok) ==
    \/ Len(tok) = 2 /\ tok[1] = "3" /\ tok[2] \in {"0", "1"}
    \/ Len(tok) = 2 /\ tok[1] \in {"1", "2"} /\ IsDigit(tok[2])
    \/ Len(tok) = 2 /\ tok[1] \in {"0", " "} /\ IsDigit(tok[2]) /\ tok[2] # "0"
    \/ Len(tok) = 1 /\ IsDigit(tok[1]) /\ tok[1] # "0"

TokenVal(tok) ==
    IF Len(tok) = 1 THEN DigitVal(tok[1])
    ELSE (IF tok[1] = " " THEN 0 ELSE 10 * DigitVal(tok[1])) + DigitVal(tok[2])

\* datetime.strptime(s, "%Y-%m-%d").date(): Some(date), or None for ValueError
strptime(s) ==
    IF Len(s) < 8 \/ Len(s) > 10 THEN None
    ELSE IF ~(\A i \in 1..4 : IsDigit(s[i])) \/ s[5] # "-" THEN None
    ELSE LET cut  == IF s[7] = "-" THEN 7 ELSE 8
             mtok == SubSeq(s, 6, cut - 1)
             dtok == SubSeq(s, cut + 1, Len(s))
             y    == 1000 * DigitVal(s[1]) + 100 * DigitVal(s[2])
                        + 10 * DigitVal(s[3]) + DigitVal(s[4])
         IN  IF s[cut] # "-" \/ ~MonthToken(mtok) \/ ~DayToken(dtok) THEN None
             ELSE IF y < 1 \/ TokenVal(dtok) > DaysInMonth(y, TokenVal(mtok))
                  THEN None
                  ELSE Some(<<y, TokenVal(mtok), TokenVal(dtok)>>)

(***************************************************************************)
(* HTTP responses                                                          *)
(***************************************************************************)
Pending == [status |-> 0, detail |-> "", body |-> <<>>]

HTTPException(status_code, detail) ==
    [status |-> status_code, detail |-> detail, body |-> <<>>]

Ok(body) == [status |-> 200, detail |-> "", body |-> body]

InvalidTimeWindow == "Time outside defined shifts (A: 07:00-15:30, B: 15:30-24:00)"

TimeRequired == "time is required if shift not provided"

InvalidShift == "shift must be 'A' or 'B'"

InvalidDateFormat == "Invalid date format, expected YYYY-MM-DD"

ExportEngineUnavailable == "Excel engine not available. Contact administrator."

FieldRequired == "Field required"

InvalidCount == "count: Input should be greater than or equal to 0"

InvalidDefects == "defects: Input should be greater than or equal to 0"

(***************************************************************************)
(* Document store collaborator (database.py)                               *)
(***************************************************************************)
str_id(n) == <<Digit(n)>>

\* create_document(collection, doc): the store with doc appended under a new _id
create_document(doc) ==
    Append(store, [_id |-> Len(store) + 1] @@ doc)

\* get_documents(collection, filter_q): exact match on the keys of filter_q
Matches(x, filter_q) ==
    /\ filter_q.date # None => x.date = filter_q.date[1]
    /\ filter_q.shift # None => x.shift = filter_q.shift[1]

get_documents(filter_q) == SelectSeq(store, LAMBDA x : Matches(x, filter_q))

(***************************************************************************)
(* Request validation of ProductionInput                                   *)
(***************************************************************************)
\* ProductionInput with the ge=0 constraint missing on defects
ProductionInput_defects_unchecked(record) ==
    IF record.count = None THEN FieldRequired
    ELSE IF record.count[1] < 0 THEN InvalidCount
    ELSE ""

\* "" when the body is a valid ProductionInput, else the 422 detail
ProductionInput(record) ==
    IF record.count = None THEN FieldRequired
    ELSE IF record.count[1] < 0 THEN InvalidCount
    ELSE IF record.defects # None /\ record.defects[1] < 0 THEN InvalidDefects
    ELSE ""

(***************************************************************************)
(* Shift classification                                                    *)
(***************************************************************************)
FIRST_SHIFT_START == dtime(7, 0, 0)

FIRST_SHIFT_END == dtime(15, 30, 0)

SECOND_SHIFT_START == dtime(15, 30, 0)

SECOND_SHIFT_END == dtime(23, 59, 59)

\* compute_shift with shift A's upper bound taken as inclusive
compute_shift_inclusive_end(entry_time) ==
    IF entry_time >= FIRST_SHIFT_START /\ entry_time <= FIRST_SHIFT_END
    THEN [raised |-> FALSE, value |-> "A"]
    ELSE IF entry_time >= SECOND_SHIFT_START /\ entry_time <= SECOND_SHIFT_END
    THEN [raised |-> FALSE, value |-> "B"]
    ELSE [raised |-> TRUE, value |-> InvalidTimeWindow]

\* [raised, value]: the shift, or the detail of the HTTPException raised
compute_shift(entry_time) ==
    IF entry_time >= FIRST_SHIFT_START /\ entry_time < FIRST_SHIFT_END
    THEN [raised |-> FALSE, value |-> "A"]
    ELSE IF entry_time >= SECOND_SHIFT_START /\ entry_time <= SECOND_SHIFT_END
    THEN [raised |-> FALSE, value |-> "B"]
    ELSE [raised |-> TRUE, value |-> InvalidTimeWindow]

(***************************************************************************)
(* POST /api/production                                                    *)
(***************************************************************************)
Unchanged(r) == [resp |-> r, store |-> store, calls |-> <<>>]

\* Save writing the document under a fixed key, replacing what is stored
Save_replacing(record, rec_date, rec_time, rec_shift) ==
    [resp  |-> Ok(<<[status  |-> "ok",
                     id      |-> str_id(1),
                     date    |-> isoformat(rec_date),
                     shift   |-> rec_shift,
                     message |-> "Production record saved"]>>),
     store |-> <<[_id      |-> 1,
                  date     |-> rec_date,
                  time     |-> rec_time,
                  shift    |-> rec_shift,
                  line     |-> record.line,
                  product  |-> record.product,
                  operator |-> record.operator,
                  count    |-> record.count[1],
                  defects  |-> IF record.defects = None THEN 0
                               ELSE record.defects[1],
                  notes    |-> record.notes]>>,
     calls |-> <<"create_document">>]

\* the ProductionRecord built and dumped, then stored by create_document
Save(record, rec_date, rec_time, rec_shift) ==
    LET doc == [date     |-> rec_date,
                time     |-> rec_time,
                shift    |-> rec_shift,
                line     |-> record.line,
                product  |-> record.product,
                operator |-> record.operator,
                count    |-> record.count[1],
                defects  |-> IF record.defects = None \/ record.defects[1] = 0
                             THEN 0 ELSE record.defects[1],
                notes    |-> record.notes]
        inserted_id == str_id(Len(store) + 1)
    IN  [resp  |-> Ok(<<[status  |-> "ok",
                         id      |-> inserted_id,
                         date    |-> isoformat(rec_date),
                         shift   |-> rec_shift,
                         message |-> "Production record saved"]>>),
         store |-> create_document(doc),
         calls |-> <<"create_document">>]

\* create_production storing the document before the explicit shift is checked
create_production_early_save(record, now) ==
    IF ProductionInput(record) # ""
    THEN Unchanged(HTTPException(422, ProductionInput(record)))
    ELSE
    LET rec_date == IF record.date # None THEN record.date[1] ELSE now.date
        rec_time == IF record.time # None THEN record.time ELSE Some(now.time)
        computed == compute_shift(rec_time[1])
    IN  IF computed.raised
        THEN Unchanged(HTTPException(400, computed.value))
        ELSE IF record.shift = None
        THEN Save(record, rec_date, rec_time, computed.value)
        ELSE IF record.shift[1] \notin {"A", "B"}
        THEN [Save(record, rec_date, rec_time, record.shift[1])
                 EXCEPT !.resp = HTTPException(400, InvalidShift)]
        ELSE Save(record, rec_date, rec_time, record.shift[1])

create_production(record, now) ==
    IF ProductionInput(record) # ""
    THEN Unchanged(HTTPException(422, ProductionInput(record)))
    ELSE
    LET rec_date == IF record.date # None THEN record.date[1] ELSE now.date
        rec_time == IF record.time # None THEN record.time ELSE Some(now.time)
    IN  IF record.shift = None
        THEN IF rec_time = None
             THEN Unchanged(HTTPException(400, TimeRequired))
             ELSE LET computed == compute_shift(rec_time[1])
                  IN  IF computed.raised
                      THEN Unchanged(HTTPException(400, computed.value))
                      ELSE Save(record, rec_date, rec_time, computed.value)
        ELSE LET rec_shift == record.shift[1]
                 expected  == compute_shift(rec_time[1])
             IN  IF rec_time # None /\ expected.raised
                 THEN Unchanged(HTTPException(400, expected.value))
                 ELSE IF rec_shift \notin {"A", "B"}
                 THEN Unchanged(HTTPException(400, InvalidShift))
                 ELSE Save(record, rec_date, rec_time, rec_shift)

(***************************************************************************)
(* GET /api/production                                                     *)
(***************************************************************************)
to_jsonable(x) ==
    [x EXCEPT !._id  = str_id(x._id),
              !.date = isoformat(x.date),
              !.time = IF x.time # None THEN Some(strftime_HM(x.time[1])) ELSE None]

\* [to_jsonable(doc) for doc in docs]
jsonable_docs(docs) == [i \in 1..Len(docs) |-> to_jsonable(docs[i])]

\* "if date_str:" / "if shift:": the parameter is given and not the empty str
\* (empty is <<>> for a str held as characters and "" otherwise)
Truthy(param, empty) == param # None /\ param[1] # empty

\* filter_builder that validates the shift but leaves it out of the filter
filter_builder_shift_dropped(date_str, shift) ==
    IF Truthy(date_str, <<>>) /\ strptime(date_str[1]) = None
    THEN [error |-> InvalidDateFormat, filter_q |-> <<>>]
    ELSE IF Truthy(shift, "") /\ shift[1] \notin {"A", "B"}
    THEN [error |-> InvalidShift, filter_q |-> <<>>]
    ELSE [error    |-> "",
          filter_q |-> [date  |-> IF Truthy(date_str, <<>>)
                                  THEN strptime(date_str[1]) ELSE None,
                        shift |-> None]]

\* filter_builder that swallows the ValueError of an unparseable date
filter_builder_date_error_swallowed(date_str, shift) ==
    IF Truthy(shift, "") /\ shift[1] \notin {"A", "B"}
    THEN [error |-> InvalidShift, filter_q |-> <<>>]
    ELSE [error    |-> "",
          filter_q |-> [date  |-> IF Truthy(date_str, <<>>)
                                  THEN strptime(date_str[1]) ELSE None,
                        shift |-> IF Truthy(shift, "") THEN shift ELSE None]]

\* the query parameters as a filter: [error, filter_q], error being "" or the
\* detail of the HTTPException raised
filter_builder(date_str, shift) ==
    IF Truthy(date_str, <<>>) /\ strptime(date_str[1]) = None
    THEN [error |-> InvalidDateFormat, filter_q |-> <<>>]
    ELSE IF Truthy(shift, "") /\ shift[1] \notin {"A", "B"}
    THEN [error |-> InvalidShift, filter_q |-> <<>>]
    ELSE [error    |-> "",
          filter_q |-> [date  |-> IF Truthy(date_str, <<>>)
                                  THEN strptime(date_str[1]) ELSE None,
                        shift |-> IF Truthy(shift, "") THEN shift ELSE None]]

list_production(date_str, shift) ==
    LET built == filter_builder(date_str, shift)
    IN  IF built.error # ""
        THEN Unchanged(HTTPException(400, built.error))
        ELSE LET docs == get_documents(built.filter_q)
             IN  [resp  |-> Ok(jsonable_docs(docs)),
                  store |-> store,
                  calls |-> <<"get_documents">>]

(***************************************************************************)
(* GET /api/production/export                                              *)
(***************************************************************************)
headers ==
    <<"Date", "Time", "Shift", "Line", "Product", "Operator",
      "Good Count", "Defects", "Notes">>

ExportRow(r) ==
    <<isoformat(r.date),
      IF r.time # None THEN strftime_HM(r.time[1]) ELSE <<>>,
      r.shift, r.line, r.product, r.operator, r.count, r.defects, r.notes>>

\* ExportLoop adding each row's count to both totals
RECURSIVE ExportLoop_count_twice(_, _, _, _, _)
ExportLoop_count_twice(records, i, ws, total_good, total_def) ==
    IF i > Len(records)
    THEN Append(ws, <<"", "", "", "", "", "Totals", total_good, total_def, "">>)
    ELSE ExportLoop_count_twice(records, i + 1, Append(ws, ExportRow(records[i])),
                                total_good + records[i].count,
                                total_def + records[i].count)

\* the worksheet after the loop over records[i..] and the totals row
RECURSIVE ExportLoop(_, _, _, _, _)
ExportLoop(records, i, ws, total_good, total_def) ==
    IF i > Len(records)
    THEN Append(ws, <<"", "", "", "", "", "Totals", total_good, total_def, "">>)
    ELSE ExportLoop(records, i + 1, Append(ws, ExportRow(records[i])),
                    total_good + records[i].count,
                    total_def + records[i].defects)

export_production(date_str, shift, openpyxl) ==
    IF date_str = None \/ shift = None
    THEN Unchanged(HTTPException(422, FieldRequired))
    ELSE IF shift[1] \notin {"A", "B"}
    THEN Unchanged(HTTPException(400, InvalidShift))
    ELSE IF strptime(date_str[1]) = None
    THEN Unchanged(HTTPException(400, InvalidDateFormat))
    ELSE LET records == get_documents([date  |-> strptime(date_str[1]),
                                       shift |-> shift])
         IN  IF ~openpyxl
             THEN [resp  |-> HTTPException(500, ExportEngineUnavailable),
                   store |-> store,
                   calls |-> <<"get_documents">>]
             ELSE [resp  |-> Ok(ExportLoop(records, 1, <<headers>>, 0, 0)),
                   store |-> store,
                   calls |-> <<"get_documents">>]

(***************************************************************************)
(* Inputs                                                                  *)
(***************************************************************************)
Opt(S) == {None} \cup {Some(v) : v \in S}

Dates == {<<2024, 1, 1>>, <<2024, 2, 29>>}

Times == {dtime(6, 59, 59), dtime(7, 0, 0), dtime(15, 30, 0)}

ShiftStrings == {"A", "B", "C", ""}

Nows ==
    {[date |-> <<2024, 1, 1>>, time |-> dtime(6, 59, 59)],
     [date |-> <<2024, 2, 29>>, time |-> dtime(15, 30, 0)]}

Payloads ==
    {[line |-> None, product |-> None, operator |-> None, notes |-> None,
      count |-> Some(0), defects |-> None],
     [line |-> Some("L1"), product |-> Some("P1"), operator |-> Some("Op1"),
      notes |-> Some("ok"), count |-> Some(2), defects |-> Some(1)],
     [line |-> Some("L1"), product |-> None, operator |-> None,
      notes |-> None, count |-> Some(-1), defects |-> Some(0)],
     [line |-> None, product |-> Some("P1"), operator |-> None,
      notes |-> None, count |-> Some(1), defects |-> Some(-1)],
     [line |-> None, product |-> None, operator |-> None, notes |-> None,
      count |-> None, defects |-> None]}

Records ==
    {[date |-> d, time |-> t, shift |-> s] @@ p :
        d \in Opt(Dates), t \in Opt(Times), s \in Opt(ShiftStrings), p \in Payloads}

IsoJan1 == <<"2", "0", "2", "4", "-", "0", "1", "-", "0", "1">>

UnpaddedJan1 == <<"2", "0", "2", "4", "-", "1", "-", "1">>

IsoFeb29 == <<"2", "0", "2", "4", "-", "0", "2", "-", "2", "9">>

NonLeapFeb29 == <<"2", "0", "2", "3", "-", "0", "2", "-", "2", "9">>

Slashes == <<"2", "0", "2", "4", "/", "0", "1", "/", "0", "1">>

DayFirst == <<"0", "1", "-", "0", "1", "-", "2", "0", "2", "4">>

DateStrings ==
    {IsoJan1, UnpaddedJan1, IsoFeb29, NonLeapFeb29, Slashes, DayFirst, <<>>}

(***************************************************************************)
(* The service: requests are handled one at a time, each handler in one   *)
(* step from the idle state; Respond sends the response and returns to it *)
(***************************************************************************)
Idle == [op |-> "none"]

Init ==
    /\ store = <<>>
    /\ req = Idle
    /\ resp = Pending
    /\ calls = <<>>

Handle(request, result) ==
    /\ req' = request
    /\ resp' = result.resp
    /\ store' = result.store
    /\ calls' = result.calls

Create(record, now) ==
    Handle([op |-> "create", record |-> record, now |-> now],
           create_production(record, now))

CreateProduction ==
    /\ req = Idle
    /\ Len(store) < MaxStore
    /\ \E record \in Records, now \in Nows : Create(record, now)

ListProduction ==
    /\ req = Idle
    /\ \E date_str \in Opt(DateStrings), shift \in Opt(ShiftStrings) :
          Handle([op |-> "list", date_str |-> date_str, shift |-> shift],
                 list_production(date_str, shift))

ExportProduction ==
    /\ req = Idle
    /\ \E date_str \in Opt(DateStrings), shift \in Opt(ShiftStrings),
          openpyxl \in BOOLEAN :
          Handle([op |-> "export", date_str |-> date_str, shift |-> shift,
                  openpyxl |-> openpyxl],
                 export_production(date_str, shift, openpyxl))

Respond ==
    /\ req # Idle
    /\ req' = Idle
    /\ resp' = Pending
    /\ calls' = <<>>
    /\ UNCHANGED store

Next == CreateProduction \/ ListProduction \/ ExportProduction \/ Respond

Spec == Init /\ [][Next]_vars

(***************************************************************************)
(* The normalizer alone: one create_production call on the empty store,    *)
(* over every clock time of the day at second precision                    *)
(***************************************************************************)
DayTimes == 0 .. dtime(23, 59, 59)

FullPayload ==
    [line |-> Some("L1"), product |-> Some("P1"), operator |-> Some("Op1"),
     notes |-> Some("ok"), count |-> Some(2), defects |-> Some(1)]

MinimalPayload ==
    [line |-> None, product |-> None, operator |-> None, notes |-> None,
     count |-> Some(5), defects |-> None]

\* the time is supplied by the caller
TimedRecord(t, s) ==
    [date |-> Some(<<2024, 1, 1>>), time |-> Some(t), shift |-> s] @@ FullPayload

\* date and time are taken from the clock
UntimedRecord(s) ==
    [date |-> None, time |-> None, shift |-> s] @@ MinimalPayload

NormalizeTimed ==
    /\ req = Idle
    /\ store = <<>>
    /\ \E t \in DayTimes, s \in Opt(ShiftStrings), now \in Nows :
          Create(TimedRecord(t, s), now)

NormalizeUntimed ==
    /\ req = Idle
    /\ store = <<>>
    /\ \E t \in DayTimes, s \in Opt(ShiftStrings) :
          Create(UntimedRecord(s), [date |-> <<2024, 2, 29>>, time |-> t])

NextNorm == NormalizeTimed \/ NormalizeUntimed

SpecNorm == Init /\ [][NextNorm]_vars

(***************************************************************************)
(* Properties                                                              *)
(***************************************************************************)
Last(seq) == seq[Len(seq)]

IsCreate == req.op = "create"

\* the request body passes validation: count >= 0, defects absent or >= 0
ValidBody ==
    /\ req.record.count # None /\ req.record.count[1] >= 0
    /\ req.record.defects = None \/ req.record.defects[1] >= 0

\* the time available to create_production: supplied, else the clock's
AvailableTime ==
    IF req.record.time # None THEN req.record.time[1] ELSE req.now.time

InWindowA(t) == 7 * 3600 <= t /\ t < 15 * 3600 + 30 * 60

InWindowB(t) == 15 * 3600 + 30 * 60 <= t /\ t <= 23 * 3600 + 59 * 60 + 59

StoredWithShift(s) ==
    /\ resp.status = 200
    /\ Len(store) >= 1
    /\ Last(store).shift = s
    /\ Last(store).time = Some(AvailableTime)

\* C1: create_production with shift 'A' or 'B' supplied succeeds for every time
\* of the day, inside or outside the windows, and stores the supplied shift.
C1_ExplicitShiftWins ==
    (IsCreate /\ ValidBody /\ req.record.shift \in {Some("A"), Some("B")})
        => /\ resp.status = 200
           /\ Len(store) >= 1
           /\ Last(store).shift = req.record.shift[1]

\* C2: with no shift supplied, the available time t gives a stored shift A for
\* 07:00:00 <= t < 15:30:00, a stored shift B for 15:30:00 <= t <= 23:59:59,
\* and the InvalidTimeWindow error (400, nothing stored) for t < 07:00:00.
C2_WindowRule ==
    (IsCreate /\ ValidBody /\ req.record.shift = None)
        => /\ InWindowA(AvailableTime) => StoredWithShift("A")
           /\ InWindowB(AvailableTime) => StoredWithShift("B")
           /\ AvailableTime < 7 * 3600 =>
                 /\ resp.status = 400
                 /\ resp.detail = InvalidTimeWindow
                 /\ store = <<>>
           /\ resp.status = 200 =>
                 Last(store).shift =
                    (IF InWindowA(Last(store).time[1]) THEN "A" ELSE "B")

C2_Witness ==
    /\ IsCreate /\ req.record.shift = None /\ req.record.time = None
    /\ req.now.time = 15 * 3600 + 29 * 60 + 59
    /\ resp.status = 200
    /\ Last(store).shift = "A"

\* C3: create_production with a supplied shift other than 'A' and 'B' fails
\* with InvalidShift whatever the time, also before 07:00:00.
C3_InvalidShiftReported ==
    (IsCreate /\ ValidBody /\ req.record.shift # None
        /\ req.record.shift \notin {Some("A"), Some("B")})
        => resp.status = 400 /\ resp.detail = InvalidShift

Normalized(doc) ==
    /\ doc.shift \in {"A", "B"}
    /\ Len(doc.date) = 3
    /\ doc.count \in Nat
    /\ doc.defects \in Nat

\* C4: a create_production call that ends in an error leaves the store as it
\* was and calls the store not at all; one that succeeds adds exactly one
\* normalized record, by one create_document call.
C4_NoPartialWrites ==
    [][req'.op = "create" =>
          IF resp'.status = 200
          THEN /\ Len(store') = Len(store) + 1
               /\ SubSeq(store', 1, Len(store)) = store
               /\ Normalized(Last(store'))
               /\ calls' = <<"create_document">>
          ELSE /\ store' = store
               /\ calls' = <<>>]_vars

C4_Witness ==
    /\ IsCreate
    /\ resp.status = 400 /\ resp.detail = InvalidShift
    /\ Len(store) = 1

\* C5: every stored record has shift A or B, a date, count >= 0 and an integer
\* defects >= 0 (0 when the input had none); a request with a negative count
\* or negative defects is rejected.
C5_StoreInvariant ==
    /\ \A i \in 1..Len(store) : Normalized(store[i])
    /\ (IsCreate /\ req.record.count # None /\ req.record.count[1] < 0)
          => resp.status = 422
    /\ (IsCreate /\ req.record.defects # None /\ req.record.defects[1] < 0)
          => resp.status = 422
    /\ (IsCreate /\ resp.status = 200 /\ req.record.defects = None)
          => Last(store).defects = 0

C5_Witness ==
    /\ IsCreate /\ req.record.defects = None
    /\ resp.status = 200
    /\ Last(store).defects = 0
    /\ Len(store) = 2

\* C6: a fully specified valid input (date, time, shift A or B, count >= 0,
\* defects >= 0) is stored with every field equal to the input's.
C6_Idempotent ==
    (IsCreate /\ ValidBody /\ req.record.date # None /\ req.record.time # None
        /\ req.record.shift \in {Some("A"), Some("B")}
        /\ req.record.defects # None)
        => /\ resp.status = 200
           /\ Len(store) >= 1
           /\ Last(store).date = req.record.date[1]
           /\ Last(store).time = req.record.time
           /\ Last(store).shift = req.record.shift[1]
           /\ Last(store).line = req.record.line
           /\ Last(store).product = req.record.product
           /\ Last(store).operator = req.record.operator
           /\ Last(store).count = req.record.count[1]
           /\ Last(store).defects = req.record.defects[1]
           /\ Last(store).notes = req.record.notes

\* what each date string of the inputs means, written out by hand
DateOracle ==
    {<<IsoJan1, <<2024, 1, 1>>>>,
     <<UnpaddedJan1, <<2024, 1, 1>>>>,
     <<IsoFeb29, <<2024, 2, 29>>>>}

Parses(s) == \E p \in DateOracle : p[1] = s

DateMeant(s) == (CHOOSE p \in DateOracle : p[1] = s)[2]

\* the positions of the stored records a date and a shift parameter select
Wanted(date_str, shift) ==
    {i \in 1..Len(store) :
        /\ date_str # None => store[i].date = DateMeant(date_str[1])
        /\ shift # None => store[i].shift = shift[1]}

\* C7: list_production with each parameter absent or valid returns exactly the
\* stored records whose date and shift equal the given ones, each once.
C7_ListExact ==
    (/\ req.op = "list"
     /\ req.date_str = None \/ Parses(req.date_str[1])
     /\ req.shift = None \/ req.shift[1] \in {"A", "B"})
        => /\ resp.status = 200
           /\ Len(resp.body) = Cardinality(Wanted(req.date_str, req.shift))
           /\ \A i \in Wanted(req.date_str, req.shift) :
                 \E k \in 1..Len(resp.body) :
                     resp.body[k]._id = str_id(store[i]._id)

C7_Witness ==
    /\ req.op = "list"
    /\ req.date_str = Some(UnpaddedJan1) /\ req.shift = Some("B")
    /\ Len(store) = 2
    /\ Len(resp.body) = 1
    /\ store[1].date = <<2024, 1, 1>> /\ store[1].shift = "A"
    /\ resp.body[1]._id = str_id(2)

\* C8 as claimed: every supplied date string that does not parse gives
\* InvalidDateFormat and (the date being acceptable) every supplied shift string
\* other than 'A' and 'B' gives InvalidShift, the empty string included,
\* without the store being queried.
C8_EveryBadStringFails ==
    req.op = "list" =>
        /\ (req.date_str # None /\ ~Parses(req.date_str[1]))
              => resp.status = 400 /\ resp.detail = InvalidDateFormat /\ calls = <<>>
        /\ (/\ req.date_str = None \/ Parses(req.date_str[1])
            /\ req.shift # None /\ req.shift \notin {Some("A"), Some("B")})
              => resp.status = 400 /\ resp.detail = InvalidShift /\ calls = <<>>

\* C8 amended: the same for every non-empty string; an empty date or shift
\* string is treated as an absent parameter and raises no error.
C8_NonEmptyBadStringFails ==
    req.op = "list" =>
        /\ (req.date_str # None /\ req.date_str[1] # <<>> /\ ~Parses(req.date_str[1]))
              => resp.status = 400 /\ resp.detail = InvalidDateFormat /\ calls = <<>>
        /\ (/\ req.date_str \in {None, Some(<<>>)} \/ Parses(req.date_str[1])
            /\ req.shift # None /\ req.shift \notin {Some("A"), Some("B"), Some("")})
              => resp.status = 400 /\ resp.detail = InvalidShift /\ calls = <<>>
        /\ (req.date_str = Some(<<>>) /\ req.shift \in {None, Some("")})
              => /\ resp.status = 200
                 /\ Len(resp.body) = Len(store)
                 /\ calls = <<"get_documents">>

C8_Witness ==
    /\ req.op = "list"
    /\ req.date_str = Some(NonLeapFeb29) /\ req.shift = Some("")
    /\ resp.status = 400 /\ resp.detail = InvalidDateFormat
    /\ Len(store) = 2

KthOf(W, k) == CHOOSE i \in W : Cardinality({j \in W : j <= i}) = k

RECURSIVE SumOver(_, _)
SumOver(W, field) ==
    IF W = {} THEN 0
    ELSE LET i == CHOOSE j \in W : TRUE
         IN  store[i][field] + SumOver(W \ {i}, field)

DateText(d) == IF d = <<2024, 1, 1>> THEN IsoJan1 ELSE IsoFeb29

TimeText(t) ==
    IF t = 7 * 3600 THEN <<"0", "7", ":", "0", "0">>
    ELSE IF t = 15 * 3600 + 30 * 60 THEN <<"1", "5", ":", "3", "0">>
    ELSE <<"0", "6", ":", "5", "9">>

\* C9: export_production for a valid date and shift gives the header row, one
\* row per stored record of that date and shift, and a totals row with the
\* sums of count and defects over those records (0 and 0 when there are none);
\* without the spreadsheet engine it gives the 500 error instead.
C9_ExportTable ==
    (/\ req.op = "export"
     /\ req.date_str # None /\ Parses(req.date_str[1])
     /\ req.shift \in {Some("A"), Some("B")})
        => IF ~req.openpyxl
           THEN resp.status = 500 /\ resp.detail = ExportEngineUnavailable
           ELSE LET W == Wanted(req.date_str, req.shift)
                    n == Cardinality(W)
                    ws == resp.body
                IN  /\ resp.status = 200
                    /\ Len(ws) = n + 2
                    /\ ws[1] = <<"Date", "Time", "Shift", "Line", "Product",
                                 "Operator", "Good Count", "Defects", "Notes">>
                    /\ \A k \in 1..n :
                          LET r == store[KthOf(W, k)]
                          IN  /\ ws[k + 1][1] = DateText(r.date)
                              /\ ws[k + 1][2] = TimeText(r.time[1])
                              /\ ws[k + 1][3] = req.shift[1]
                              /\ ws[k + 1][4] = r.line
                              /\ ws[k + 1][5] = r.product
                              /\ ws[k + 1][6] = r.operator
                              /\ ws[k + 1][7] = r.count
                              /\ ws[k + 1][8] = r.defects
                              /\ ws[k + 1][9] = r.notes
                    /\ ws[n + 2][6] = "Totals"
                    /\ ws[n + 2][7] = SumOver(W, "count")
                    /\ ws[n + 2][8] = SumOver(W, "defects")

C9_Witness ==
    /\ req.op = "export" /\ resp.status = 200
    /\ Len(resp.body) = 4
    /\ resp.body[4][7] = 2 /\ resp.body[4][8] = 1
    /\ store[1].count = 0 /\ store[2].count = 2

\* C10: the store only grows: every record present before a step is present
\* and identical after it, and a step that is no create_production call
\* leaves the store unchanged.
C10_StoreOnlyGrows ==
    [][/\ Len(store') >= Len(store)
       /\ SubSeq(store', 1, Len(store)) = store
       /\ req'.op # "create" => store' = store]_vars

C10_Witness ==
    /\ IsCreate /\ resp.status = 200
    /\ Len(store) = 2
    /\ store[1].shift = "B" /\ store[2].shift = "A"

TypeOK == Len(store) <= MaxStore

====
